---- MODULE Spec2Model ----
(***************************************************************************)
(* hermes_core.util.container: the extension dispatch (read, validate) and *)
(* the ScienceData container (construction checks, item access, handler,   *)
(* save, load).                                                            *)
(*                                                                         *)
(* A table is a function from its column names to columns.  A column is a  *)
(* record [val, unit, meta, buf]:                                          *)
(*   val   the column's values (one token stands for the array contents),  *)
(*   unit  its physical unit, NoUnit for a plain column / array,           *)
(*   meta  its .meta attribute: [has |-> FALSE] when the object has none,  *)
(*   buf   the owner of the buffer holding val ("src": the caller's table, *)
(*         "sd": the container's own copy); an in-place write reaches every*)
(*         column sharing the buffer.                                      *)
(* A QTable/TimeSeries holds a unit-bearing column as a Quantity and a     *)
(* unit-less one as a plain Column, so "is a Quantity" is "has a unit".    *)
(***************************************************************************)
EXTENDS Integers, Sequences, FiniteSets, TLC

VARIABLES src, sd, out

vars == <<src, sd, out>>

\* ------------------------------------------------------------------ bounds
MaxVal == 1
MaxStem == 1

\* ------------------------------------------------------------- vocabulary
ColNames == {"time", "flux", "energy"}
Vals == 0..MaxVal
Units == {"counts", "keV"}
NoUnit == "None"
MetaKeys == {"CATDESC"}
MetaVals == {"x"}

None == "None"
ScienceDataIOHandler == {"CDFHandler", "NetCDFHandler", "FITSHandler"}
\* what a caller may pass as a handler: None, a handler, or some other object
HandlerValues == {None, "object"} \cup ScienceDataIOHandler

\* the exceptions the code raises, by type and message
OK == "ok"
E_Unsupported == "ValueError: Unsupported file type"
E_Columns == "ValueError: Science data must have at least 2 columns"
E_Time == "ValueError: Science data must have a 'time' column"
E_DataType == "ValueError: Invalid data type. Must be a TimeSeries or Table object."
E_Quantity == "ValueError: Column must be an astropy.Quantity object"
E_Handler == "ValueError: Handler must be an instance of ScienceDataIOHandler"
E_Key == "KeyError: CDFWriter does not contain data variable"
E_Unit == "TypeError: Column must be type astropy.units.Quantity and have unit assigned."
E_NoHandler == "ValueError: No handler specified for saving data"

\* --------------------------------------------------------------- metadata
OrderedDict == <<>>
Dicts == UNION {[K -> MetaVals] : K \in SUBSET MetaKeys}
NoMeta == [has |-> FALSE, d |-> OrderedDict]
Meta(d) == [has |-> TRUE, d |-> d]
Metas == {NoMeta} \cup {Meta(d) : d \in Dicts}

hasattr_meta(x) == x.meta.has

update(d, e) == [k \in DOMAIN d \cup DOMAIN e |-> IF k \in DOMAIN e THEN e[k] ELSE d[k]]

\* ----------------------------------------------------------------- tables
EmptyTable == <<>>

Restrict(f, S) == [x \in S |-> f[x]]

\* the tables over the given names whose "time" column is a time (no unit)
TablesOver(names, metas) ==
    {t \in [names -> [val : Vals, unit : Units \cup {NoUnit}, meta : metas, buf : {"src"}]] :
        "time" \in names => t["time"].unit = NoUnit}

AllTables(metas) == UNION {TablesOver(names, metas) : names \in SUBSET ColNames}

\* what a caller may pass as data: a TimeSeries, a Table, or some other object
InputsWith(metas) ==
    {[kind |-> k, cols |-> t] : k \in {"TimeSeries", "Table"}, t \in AllTables(metas)}
        \cup {[kind |-> "other", cols |-> EmptyTable]}

Inputs == InputsWith(Metas)
PlainInputs == InputsWith({NoMeta})
NoInput == [kind |-> "other", cols |-> EmptyTable]

\* what a caller may assign as a column: a Quantity (unit) or a plain array (NoUnit)
\* without a .meta attribute, or with a non-empty one
Assignables ==
    [val : Vals, unit : Units \cup {NoUnit},
     meta : {NoMeta} \cup {Meta(d) : d \in Dicts \ {OrderedDict}}, buf : {"arg"}]

isinstance_Quantity(col) == col.unit # NoUnit

\* mutant: copy=False, the container's columns stay in the caller's buffers
TimeSeriesNoCopy(cols) == cols

\* TimeSeries(data, copy=True): a table of the same columns, each in a buffer of
\* the container's own
TimeSeriesCopy(cols) == [c \in DOMAIN cols |-> [cols[c] EXCEPT !.buf = "sd"]]

\* ------------------------------------------------------------ ScienceData
NoScienceData == [live |-> FALSE, data |-> EmptyTable, handler |-> None]

Raise(e) == [err |-> e, obj |-> NoScienceData]

\* mutant: the isinstance check left out
HandlerAcceptedAny(value) == TRUE

\* handler.setter
HandlerAccepted(value) == ~(value # None /\ value \notin ScienceDataIOHandler)

\* __init__, the metadata loop of lines 96-104
InitMeta(ts, data) ==
    [c \in DOMAIN ts |->
        [ts[c] EXCEPT !.meta =
            Meta(IF hasattr_meta(data.cols[c])
                 THEN update(OrderedDict, data.cols[c].meta.d)
                 ELSE OrderedDict)]]

\* mutant: the column count compared with 1
ShapeCheckOffByOne(data) ==
    IF data.kind \in {"TimeSeries", "Table"}
    THEN IF Cardinality(DOMAIN data.cols) < 1 THEN E_Columns
         ELSE IF "time" \notin DOMAIN data.cols THEN E_Time
         ELSE OK
    ELSE E_DataType

\* __init__, the shape checks of lines 77-90: the error, or OK
ShapeCheck(data) ==
    IF data.kind \in {"TimeSeries", "Table"}
    THEN IF Cardinality(DOMAIN data.cols) < 2 THEN E_Columns
         ELSE IF "time" \notin DOMAIN data.cols THEN E_Time
         ELSE OK
    ELSE E_DataType

\* mutant: raises only when every non-time column lacks a unit
UnitCheckAll(ts) ==
    IF /\ DOMAIN ts \ {"time"} # {}
       /\ \A colname \in DOMAIN ts \ {"time"} : ~isinstance_Quantity(ts[colname])
    THEN E_Quantity
    ELSE OK

\* __init__, the unit check of lines 92-94
UnitCheck(ts) ==
    IF \E colname \in DOMAIN ts : colname # "time" /\ ~isinstance_Quantity(ts[colname])
    THEN E_Quantity
    ELSE OK

ScienceData_init(data, handler) ==
    IF ShapeCheck(data) # OK THEN Raise(ShapeCheck(data))
    ELSE LET ts == TimeSeriesCopy(data.cols) IN
         IF UnitCheck(ts) # OK THEN Raise(UnitCheck(ts))
         ELSE IF ~HandlerAccepted(handler) THEN Raise(E_Handler)
         ELSE [err |-> OK,
               obj |-> [live |-> TRUE, data |-> InitMeta(ts, data), handler |-> handler]]

\* mutant: a missing name yields None instead of raising
getitem_default(self, name) ==
    IF name \notin DOMAIN self.data
    THEN [err |-> OK, ret |-> None]
    ELSE [err |-> OK, ret |-> self.data[name]]

\* __getitem__
getitem(self, name) ==
    IF name \notin DOMAIN self.data
    THEN [err |-> E_Key, ret |-> None]
    ELSE [err |-> OK, ret |-> self.data[name]]

\* the value and unit of a column, as the caller compares them
ValueUnit(col) == [val |-> col.val, unit |-> col.unit]

\* the column _add_variable stores
Stored(var_data, var_attrs) ==
    [val |-> var_data.val, unit |-> var_data.unit,
     meta |-> Meta(IF hasattr_meta(var_data) THEN update(OrderedDict, var_attrs)
                   ELSE OrderedDict),
     buf |-> "sd"]

\* self.data[var_name] = column
WithColumn(self, var_name, column) ==
    [self EXCEPT !.data = [c \in DOMAIN self.data \cup {var_name} |->
                              IF c = var_name THEN column ELSE self.data[c]]]

\* mutant: the Quantity check left out
add_variable_unchecked(self, var_name, var_data, var_attrs) ==
    [err |-> OK, self |-> WithColumn(self, var_name, Stored(var_data, var_attrs))]

\* mutant: the column is stored before the Quantity check raises
add_variable_store_first(self, var_name, var_data, var_attrs) ==
    IF (~isinstance_Quantity(var_data)) \/ var_data.unit = NoUnit
    THEN [err |-> E_Unit, self |-> WithColumn(self, var_name, Stored(var_data, var_attrs))]
    ELSE [err |-> OK, self |-> WithColumn(self, var_name, Stored(var_data, var_attrs))]

\* _add_variable
add_variable(self, var_name, var_data, var_attrs) ==
    IF (~isinstance_Quantity(var_data)) \/ var_data.unit = NoUnit
    THEN [err |-> E_Unit, self |-> self]
    ELSE [err |-> OK, self |-> WithColumn(self, var_name, Stored(var_data, var_attrs))]

\* mutant: the assigned quantity's own metadata passed as the attributes
setitem_keeps_meta(self, name, data) == add_variable(self, name, data, data.meta.d)

\* __setitem__
setitem(self, name, data) == add_variable(self, name, data, OrderedDict)

\* a call on a collaborator (a handler or a validator)
Call(obj, method, args) == [obj |-> obj, method |-> method, args |-> args]

\* handler.setter
handler_setter(self, value) ==
    IF ~HandlerAccepted(value)
    THEN [err |-> E_Handler, self |-> self]
    ELSE [err |-> OK, self |-> [self EXCEPT !.handler = value]]

\* mutant: the table handed to the handler instead of the container
save_table(self, output_path) ==
    IF self.handler = None
    THEN [err |-> E_NoHandler, calls |-> <<>>]
    ELSE [err |-> OK,
          calls |-> <<Call(self.handler, "save_data", <<self.data, output_path>>)>>]

\* save
save(self, output_path) ==
    IF self.handler = None
    THEN [err |-> E_NoHandler, calls |-> <<>>]
    ELSE [err |-> OK,
          calls |-> <<Call(self.handler, "save_data", <<self, output_path>>)>>]

\* load; loaded is what handler.load_data(filename) returns
load(filename, handler, loaded) ==
    IF handler \notin ScienceDataIOHandler
    THEN [err |-> E_Handler, obj |-> NoScienceData, calls |-> <<>>]
    ELSE LET r == ScienceData_init(loaded, handler) IN
         [err |-> r.err, obj |-> r.obj,
          calls |-> <<Call(handler, "load_data", <<filename>>)>>]

\* ---------------------------------------------------------------- actions
Result(op, err, arg, calls, ret) ==
    [op |-> op, err |-> err, arg |-> arg, calls |-> calls, ret |-> ret]

NoOp == Result("none", OK, None, <<>>, None)

Paths == {"out/"}
LoadNames == {"f"}

\* sd = ScienceData(src, handler)
Construct(handler) ==
    LET r == ScienceData_init(src, handler) IN
    /\ sd' = r.obj
    /\ out' = Result("init", r.err, [data |-> src, handler |-> handler], <<>>, None)
    /\ UNCHANGED src

\* sd = ScienceData.load(filename, handler); the file decodes to src
Load(filename, handler) ==
    LET r == load(filename, handler, src) IN
    /\ sd' = r.obj
    /\ out' = Result("load", r.err, [filename |-> filename, handler |-> handler],
                     r.calls, None)
    /\ UNCHANGED src

\* sd[name]
GetItem(name) ==
    /\ sd.live
    /\ LET r == getitem(sd, name) IN
       out' = Result("getitem", r.err, [name |-> name], <<>>, r.ret)
    /\ UNCHANGED <<src, sd>>

\* sd[name] = data
SetItem(name, data) ==
    /\ sd.live
    /\ LET r == setitem(sd, name, data) IN
       /\ sd' = r.self
       /\ out' = Result("setitem", r.err, [name |-> name, data |-> data], <<>>, None)
    /\ UNCHANGED src

\* sd.handler = value
SetHandler(value) ==
    /\ sd.live
    /\ LET r == handler_setter(sd, value) IN
       /\ sd' = r.self
       /\ out' = Result("handler", r.err, [value |-> value], <<>>, None)
    /\ UNCHANGED src

\* sd.save(output_path)
Save(output_path) ==
    /\ sd.live
    /\ LET r == save(sd, output_path) IN
       out' = Result("save", r.err, [output_path |-> output_path], r.calls, None)
    /\ UNCHANGED <<src, sd>>

\* ------------------------------------------- construction and the handler
InitConstruction ==
    /\ src \in Inputs
    /\ sd = NoScienceData
    /\ out = NoOp

NextConstruction ==
    \/ \E h \in HandlerValues : Construct(h)
    \/ \E f \in LoadNames, h \in HandlerValues : Load(f, h)
    \/ \E n \in ColNames : GetItem(n)
    \/ \E v \in HandlerValues : SetHandler(v)
    \/ \E p \in Paths : Save(p)

SpecConstruction == InitConstruction /\ [][NextConstruction]_vars

\* ------------------------------------------------ the constructed container
\* the containers a successful construction yields, direct or via load
Constructed ==
    {r.obj : r \in {x \in {ScienceData_init(d, None) : d \in Inputs}
                            \cup {load(f, h, d) : f \in LoadNames, h \in {"CDFHandler"},
                                                  d \in Inputs} :
                        x.err = OK}}

Init ==
    /\ src = NoInput
    /\ sd \in Constructed
    /\ out = NoOp

Next ==
    \/ \E n \in ColNames, d \in Assignables : SetItem(n, d)
    \/ \E n \in ColNames : GetItem(n)

Spec == Init /\ [][Next]_vars

\* ------------------------------------------------------- the caller's table
\* an in-place write into the buffer <<owner, name>>: every column held in it
\* shows the new values
WriteBuffer(cols, owner, name, v) ==
    [c \in DOMAIN cols |->
        IF c = name /\ cols[c].buf = owner THEN [cols[c] EXCEPT !.val = v] ELSE cols[c]]

\* src[name][:] = v
WriteSource(name, v) ==
    /\ name \in DOMAIN src.cols
    /\ src' = [src EXCEPT !.cols = WriteBuffer(src.cols, "src", name, v)]
    /\ sd' = [sd EXCEPT !.data = WriteBuffer(sd.data, "src", name, v)]
    /\ out' = Result("write", OK, [name |-> name], <<>>, None)

\* src[name] = col, a new column
AddSourceColumn(name, col) ==
    /\ src.kind # "other"
    /\ name \notin DOMAIN src.cols
    /\ name = "time" => col.unit = NoUnit
    /\ src' = [src EXCEPT !.cols =
                  [c \in DOMAIN src.cols \cup {name} |-> IF c = name THEN col ELSE src.cols[c]]]
    /\ out' = Result("add", OK, None, <<>>, None)
    /\ UNCHANGED sd

\* del src[name]
RemoveSourceColumn(name) ==
    /\ name \in DOMAIN src.cols
    /\ src' = [src EXCEPT !.cols = Restrict(src.cols, DOMAIN src.cols \ {name})]
    /\ out' = Result("remove", OK, None, <<>>, None)
    /\ UNCHANGED sd

InitCopy ==
    /\ src \in PlainInputs
    /\ sd = NoScienceData
    /\ out = NoOp

NextCopy ==
    \/ Construct(None)
    \/ \E n \in ColNames, v \in Vals : WriteSource(n, v)
    \/ \E n \in ColNames, c \in [val : Vals, unit : Units \cup {NoUnit}, meta : {NoMeta}, buf : {"src"}] :
          AddSourceColumn(n, c)
    \/ \E n \in ColNames : RemoveSourceColumn(n)

SpecCopy == InitCopy /\ [][NextCopy]_vars

\* ---------------------------------------------------------------- dispatch
\* a filename is the sequence of its characters
Ext_cdf == <<".", "c", "d", "f">>
Ext_nc == <<".", "n", "c">>
Ext_fits == <<".", "f", "i", "t", "s">>

StemChars == {"x", ".", "/"}
Stems == UNION {[1..n -> StemChars] : n \in 0..MaxStem}
Tails == {<<>>, Ext_cdf, Ext_nc, Ext_fits,
          <<".", "C", "D", "F">>, <<".", "N", "c">>, <<".", "f", "i", "t">>,
          <<".", "c", "d", "f", "x">>, <<"c", "d", "f">>, <<".", "n", "c", "/", "x">>}
Filenames == {s \o t : s \in Stems, t \in Tails}

\* str.rfind, 1-based, 0 when absent
rfind(p, ch) ==
    LET at == {i \in 1..Len(p) : p[i] = ch} IN
    IF at = {} THEN 0 ELSE CHOOSE i \in at : \A j \in at : j <= i

\* os.path.splitext(p)[1]: from the last dot of the last path component, unless
\* that component has nothing but dots before it
splitext_ext(p) ==
    LET sepIndex == rfind(p, "/")
        dotIndex == rfind(p, ".")
    IN IF dotIndex > sepIndex /\ \E k \in (sepIndex + 1)..(dotIndex - 1) : p[k] # "."
       THEN SubSeq(p, dotIndex, Len(p))
       ELSE <<>>

\* str.lower on the extensions the model draws
lower(ext) ==
    [i \in 1..Len(ext) |->
        CASE ext[i] = "C" -> "c" [] ext[i] = "D" -> "d" [] ext[i] = "F" -> "f"
          [] ext[i] = "N" -> "n" [] OTHER -> ext[i]]

\* mutant: the extension compared in lower case
SelectHandlerAnyCase(file_extension) ==
    IF lower(file_extension) = Ext_cdf THEN "CDFHandler"
    ELSE IF lower(file_extension) = Ext_nc THEN "NetCDFHandler"
    ELSE IF lower(file_extension) = Ext_fits THEN "FITSHandler"
    ELSE None

\* the if/elif chain of read
SelectHandler(file_extension) ==
    IF file_extension = Ext_cdf THEN "CDFHandler"
    ELSE IF file_extension = Ext_nc THEN "NetCDFHandler"
    ELSE IF file_extension = Ext_fits THEN "FITSHandler"
    ELSE None

\* the if/elif chain of validate
SelectValidator(file_extension) ==
    IF file_extension = Ext_cdf THEN "CDFValidator"
    ELSE IF file_extension = Ext_nc THEN "NetCDFValidator"
    ELSE IF file_extension = Ext_fits THEN "FITSValidator"
    ELSE None

\* read; loaded is what the handler's load_data(filename) returns
read(filename, loaded) ==
    LET handler == SelectHandler(splitext_ext(filename)) IN
    IF handler = None
    THEN [err |-> E_Unsupported, obj |-> NoScienceData, calls |-> <<>>]
    ELSE LET r == load(filename, handler, loaded) IN
         [err |-> r.err, obj |-> r.obj,
          calls |-> <<Call(handler, "__init__", <<>>)>> \o r.calls]

\* validate; issues is what the validator's validate(filename) returns
validate(filename, issues) ==
    LET validator == SelectValidator(splitext_ext(filename)) IN
    IF validator = None
    THEN [err |-> E_Unsupported, ret |-> None, calls |-> <<>>]
    ELSE [err |-> OK, ret |-> issues,
          calls |-> <<Call(validator, "__init__", <<>>),
                      Call(validator, "validate", <<filename>>)>>]

\* sd = read(filename); the file decodes to src
Read(filename) ==
    LET r == read(filename, src) IN
    /\ sd' = r.obj
    /\ out' = Result("read", r.err, [filename |-> filename], r.calls, None)
    /\ UNCHANGED src

\* validate(filename)
Validate(filename, issues) ==
    LET r == validate(filename, issues) IN
    /\ out' = Result("validate", r.err, [filename |-> filename], r.calls, r.ret)
    /\ UNCHANGED <<src, sd>>

\* what a validator may report
IssueLists == {<<>>, <<"issue">>}

\* what a handler may decode from a file: a time series, fit for a container or not
LoadedTables ==
    {i \in PlainInputs :
        /\ i.kind = "TimeSeries"
        /\ \A c \in DOMAIN i.cols : i.cols[c].val = 0 /\ i.cols[c].unit \in {NoUnit, "counts"}}

InitDispatch ==
    /\ src \in LoadedTables
    /\ sd = NoScienceData
    /\ out = NoOp

NextDispatch ==
    \/ \E f \in Filenames : Read(f)
    \/ \E f \in Filenames, i \in IssueLists : Validate(f, i)

SpecDispatch == InitDispatch /\ [][NextDispatch]_vars

\* ------------------------------------------------------------- error kinds
UnsupportedFormat == {E_Unsupported}
InvalidShape == {E_Columns, E_Time}
MissingUnit == {E_Quantity}
TypeMismatch == {E_DataType, E_Handler}
MissingColumn == {E_Key}
NoHandlerConfigured == {E_NoHandler}

IsTable(data) == data.kind \in {"TimeSeries", "Table"}
NCols(data) == Cardinality(DOMAIN data.cols)
HasTime(data) == "time" \in DOMAIN data.cols
AllUnits(data) == \A c \in DOMAIN data.cols \ {"time"} : data.cols[c].unit # NoUnit
ValidTable(data) == IsTable(data) /\ NCols(data) >= 2 /\ HasTime(data) /\ AllUnits(data)

\* f ends in the extension e, and its last path component has a character other
\* than a dot before e
HasExtension(f, e) ==
    /\ Len(f) > Len(e)
    /\ SubSeq(f, Len(f) - Len(e) + 1, Len(f)) = e
    /\ \E k \in 1..(Len(f) - Len(e)) :
          /\ f[k] \notin {".", "/"}
          /\ \A j \in k..(Len(f) - Len(e)) : f[j] # "/"

Supported(f) == \E e \in {Ext_cdf, Ext_nc, Ext_fits} : HasExtension(f, e)

\* every call of the operation went to obj, and there was one
OnlyOn(calls, obj) == calls # <<>> /\ \A i \in 1..Len(calls) : calls[i].obj = obj

\* ------------------------------------------------------------------ claims

\* C1: read and validate dispatch on the filename's extension by case-sensitive
\* exact match: .cdf selects the CDF handler/validator, .nc the NetCDF one, .fits
\* the FITS one; any other extension (upper-case variants and the empty extension
\* included) fails with the unsupported-format error, with no handler or validator
\* invoked and no container produced.
C1_Dispatch ==
    /\ out.op = "read" =>
          LET f == out.arg.filename IN
          /\ HasExtension(f, Ext_cdf) => OnlyOn(out.calls, "CDFHandler")
          /\ HasExtension(f, Ext_nc) => OnlyOn(out.calls, "NetCDFHandler")
          /\ HasExtension(f, Ext_fits) => OnlyOn(out.calls, "FITSHandler")
          /\ Supported(f) => out.err \notin UnsupportedFormat
          /\ ~Supported(f) => out.err \in UnsupportedFormat /\ out.calls = <<>> /\ ~sd.live
    /\ out.op = "validate" =>
          LET f == out.arg.filename IN
          /\ HasExtension(f, Ext_cdf) => OnlyOn(out.calls, "CDFValidator")
          /\ HasExtension(f, Ext_nc) => OnlyOn(out.calls, "NetCDFValidator")
          /\ HasExtension(f, Ext_fits) => OnlyOn(out.calls, "FITSValidator")
          /\ Supported(f) => out.err = OK
          /\ ~Supported(f) => out.err \in UnsupportedFormat /\ out.calls = <<>>

\* read("x.cdf") went through the CDF handler and produced a container
C1_Witness ==
    /\ out.op = "read"
    /\ out.arg.filename = <<"x">> \o Ext_cdf
    /\ OnlyOn(out.calls, "CDFHandler")
    /\ sd.live

\* C2: constructing from a table with fewer than 2 columns or without a "time"
\* column fails with InvalidShape and produces no container, whatever the units
\* of the other columns and whatever the handler; the column count is checked
\* before the time column.
C2_InvalidShape ==
    out.op = "init" /\ IsTable(out.arg.data) =>
        /\ NCols(out.arg.data) < 2 => out.err = E_Columns /\ ~sd.live
        /\ NCols(out.arg.data) >= 2 /\ ~HasTime(out.arg.data) => out.err = E_Time /\ ~sd.live
        /\ NCols(out.arg.data) < 2 \/ ~HasTime(out.arg.data) => out.err \in InvalidShape

\* a two-column table without "time", one column unit-less: the shape error wins
C2_Witness ==
    /\ out.op = "init"
    /\ IsTable(out.arg.data)
    /\ NCols(out.arg.data) = 2
    /\ ~HasTime(out.arg.data)
    /\ ~AllUnits(out.arg.data)
    /\ out.err = E_Time
    /\ ~sd.live

\* C3: constructing from a table with at least 2 columns and a "time" column, one
\* of whose other columns lacks a unit, fails with MissingUnit.
C3_MissingUnit ==
    out.op = "init" /\ IsTable(out.arg.data) /\ NCols(out.arg.data) >= 2
        /\ HasTime(out.arg.data) /\ ~AllUnits(out.arg.data)
    => out.err \in MissingUnit /\ ~sd.live

\* time, a column with a unit and a column without one
C3_Witness ==
    /\ out.op = "init"
    /\ IsTable(out.arg.data)
    /\ NCols(out.arg.data) = 3
    /\ HasTime(out.arg.data)
    /\ \E c \in DOMAIN out.arg.data.cols : out.arg.data.cols[c].unit \in Units
    /\ ~AllUnits(out.arg.data)
    /\ out.err = E_Quantity

\* C4: after a successful construction (direct or via load) and any sequence of
\* successful and failed item assignments, the container has at least 2 columns,
\* one of them "time", and every other column carries a unit.
C4_Invariants ==
    sd.live =>
        /\ Cardinality(DOMAIN sd.data) >= 2
        /\ "time" \in DOMAIN sd.data
        /\ \A c \in DOMAIN sd.data \ {"time"} : sd.data[c].unit # NoUnit

\* a failed assignment of a new column to a two-column container
C4_Witness ==
    /\ sd.live
    /\ out.op = "setitem"
    /\ out.err # OK
    /\ out.arg.name \notin DOMAIN sd.data
    /\ Cardinality(DOMAIN sd.data) = 2

\* C5: once a container is constructed from a table, a later mutation of that
\* table by the caller (writing a column's values, adding a column, removing a
\* column) leaves what the container's get returns for every name unchanged.
C5_CopyIsolation ==
    [][sd.live /\ out'.op \in {"write", "add", "remove"} =>
          \A n \in ColNames :
              /\ getitem(sd', n).err = getitem(sd, n).err
              /\ getitem(sd, n).err = OK =>
                    ValueUnit(getitem(sd', n).ret) = ValueUnit(getitem(sd, n).ret)]_vars

\* the caller wrote into a column the container holds, and the two now differ
C5_Witness ==
    /\ sd.live
    /\ out.op = "write"
    /\ out.arg.name \in DOMAIN sd.data
    /\ out.arg.name \in DOMAIN src.cols
    /\ sd.data[out.arg.name].val # src.cols[out.arg.name].val

\* C6: after constructing from a valid table, get of each column name returns data
\* equal in value and unit to that column of the input; get of a name that is not
\* a column fails with MissingColumn.
C6_RoundTrip ==
    /\ out.op = "init" /\ out.err = OK =>
          \A n \in DOMAIN out.arg.data.cols :
              /\ getitem(sd, n).err = OK
              /\ ValueUnit(getitem(sd, n).ret) = ValueUnit(out.arg.data.cols[n])
    /\ out.op = "getitem" =>
          IF out.arg.name \in DOMAIN src.cols
          THEN out.err = OK /\ ValueUnit(out.ret) = ValueUnit(src.cols[out.arg.name])
          ELSE out.err \in MissingColumn

\* get("flux") on a container built from a table whose flux is 1 keV
C6_Witness ==
    /\ sd.live
    /\ out.op = "getitem"
    /\ out.arg.name = "flux"
    /\ out.err = OK
    /\ out.ret.val = 1
    /\ out.ret.unit = "keV"

\* C7: save on a container without a handler fails with NoHandlerConfigured and
\* invokes nothing; save on a container with a handler calls that handler's
\* save_data exactly once, with the container and the given path, and leaves the
\* container unchanged.
C7_Save ==
    [][out'.op = "save" =>
          /\ sd' = sd
          /\ IF sd.handler = None
             THEN out'.err \in NoHandlerConfigured /\ out'.calls = <<>>
             ELSE /\ out'.err = OK
                  /\ out'.calls = <<Call(sd.handler, "save_data",
                                         <<sd, out'.arg.output_path>>)>>]_vars

\* a save that reached the handler
C7_Witness ==
    /\ out.op = "save"
    /\ out.err = OK
    /\ Len(out.calls) = 1
    /\ out.calls[1].obj \in ScienceDataIOHandler

\* C8: an item assignment of data without a unit fails and changes nothing:
\* column names, values, units and metadata are as before.
C8_SetAllOrNothing ==
    [][out'.op = "setitem" /\ out'.arg.data.unit = NoUnit =>
          out'.err = E_Unit /\ sd' = sd]_vars

\* a unit-less "energy" was refused and the container still has no "energy"
C8_Witness ==
    /\ out.op = "setitem"
    /\ out.arg.name = "energy"
    /\ out.arg.data.unit = NoUnit
    /\ out.err = E_Unit
    /\ "energy" \notin DOMAIN sd.data

\* C9 as stated: the handler held is always None or a recognized handler;
\* construction and handler assignment with any other value fail with
\* TypeMismatch, an assignment leaving the previous handler in place; load with
\* anything but a recognized handler (None included) fails before load_data is
\* invoked.
C9_AsStated ==
    [][/\ sd'.handler \in {None} \cup ScienceDataIOHandler
       /\ out'.op = "init" /\ IsTable(out'.arg.data)
             /\ out'.arg.handler \notin {None} \cup ScienceDataIOHandler
          => out'.err \in TypeMismatch /\ ~sd'.live
       /\ out'.op = "handler" /\ out'.arg.value \notin {None} \cup ScienceDataIOHandler
          => out'.err \in TypeMismatch /\ sd' = sd
       /\ out'.op = "load" /\ out'.arg.handler \notin ScienceDataIOHandler
          => out'.err \in TypeMismatch /\ out'.calls = <<>> /\ ~sd'.live]_vars

\* C9, amended: as stated, but construction with another handler value fails
\* with TypeMismatch when the table passes the shape and unit checks; otherwise
\* it fails with that check's error, which comes first.
C9_Handler ==
    [][/\ sd'.handler \in {None} \cup ScienceDataIOHandler
       /\ out'.op = "init" /\ IsTable(out'.arg.data)
             /\ out'.arg.handler \notin {None} \cup ScienceDataIOHandler
          => /\ ~sd'.live
             /\ IF ValidTable(out'.arg.data)
                THEN out'.err \in TypeMismatch
                ELSE out'.err \in InvalidShape \cup MissingUnit
       /\ out'.op = "handler" /\ out'.arg.value \notin {None} \cup ScienceDataIOHandler
          => out'.err \in TypeMismatch /\ sd' = sd
       /\ out'.op = "load" /\ out'.arg.handler \notin ScienceDataIOHandler
          => out'.err \in TypeMismatch /\ out'.calls = <<>> /\ ~sd'.live]_vars

\* a valid table with a handler that is no handler: refused for the handler
C9_Witness ==
    /\ out.op = "init"
    /\ ValidTable(out.arg.data)
    /\ out.arg.handler = "object"
    /\ out.err = E_Handler
    /\ ~sd.live

====
